---- MODULE Spec2Model ----
(***************************************************************************)
(* Model of the telebot referral backend (later version of the server,     *)
(* src/unnamed/part_001 lines 282-540): the /start handler with its        *)
(* upsertUser transaction, and the POST /offers/callback handler, whose    *)
(* store operations (once, set, transaction) are separate steps that       *)
(* interleave between requests.  The store is the Firebase Realtime        *)
(* Database: three collections users/{id}, leaderboard/{id},               *)
(* installs/{id}; a transaction is atomic on its key, a null child is not  *)
(* stored.                                                                 *)
(***************************************************************************)
EXTENDS Integers, FiniteSets, Sequences, TLC

\* ---------------------------------------------------------------- bounds
\* callbacks followed through the handler
MaxReq == 2
\* /start commands recorded in startLog (specification SpecRef)
MaxStarts == 3

\* ------------------------------------------------------------- constants
POINTS_FOR_COMPLETION == 1

Null == "null"

\* chats that talk to the bot, and the referral codes they may carry: "C" is
\* a code of somebody who never contacted the bot
ChatIds == {"A", "B"}
RefCodes == {"A", "B", "C"}
Ids == ChatIds \cup RefCodes
InstallIds == {"I1"}
UserNames == {"ann"}
FaultMsgs == {"ETIMEDOUT"}
Secrets == {"", "s3cret"}

\* providerStatus values a provider sends (Null: the field is absent)
Statuses == {Null, "completed", "Paid", "pending"}

\* classes of x-provider-signature header values, relative to the digest
\*   missing  : header absent ('')
\*   good     : equals the hex digest
\*   badlen   : another length
\*   badval   : same length, ASCII, another value
\*   nonascii : same length in characters, more bytes (a latin1 character
\*              above 0x7f is two bytes in Buffer.from(sig))
SigValues == {"missing", "good", "badlen", "badval", "nonascii"}

DigestLen == 64

Slots == 1..MaxReq

\* secret      : PROVIDER_CALLBACK_SECRET
\* users, leaderboard, installs : the three collections of the store
\* req         : the callbacks, each with its place in the handler, its locals
\*               and its response
\* startLog    : history of the /start commands whose transaction committed
\*               (written by StartLogged only)
\* top         : the GET /leaderboard/top/:n requests
\* chat        : the runs of the chat command handlers, with their sends
VARIABLES secret, users, leaderboard, installs, req, startLog, top, chat

vars == <<secret, users, leaderboard, installs, req, startLog, top, chat>>

\* ------------------------------------------------------- record helpers
Has(rec, f) == f \in DOMAIN rec

\* rec.f, undefined and null read as Null
Str(rec, f) == IF Has(rec, f) THEN rec[f] ELSE Null

\* (rec.f || 0)
OrZero(rec, f) == IF Has(rec, f) THEN rec[f] ELSE 0

\* cur.f = v
Put(rec, f, v) == [k \in (DOMAIN rec) \cup {f} |-> IF k = f THEN v ELSE rec[k]]

\* the store keeps no child whose value is null
StoreValue(rec, nullable) ==
  [k \in {f \in DOMAIN rec : ~(f \in nullable /\ rec[f] = Null)} |-> rec[k]]

\* ref.set / committed transaction on one key of a collection
Write(coll, k, v) ==
  [x \in (DOMAIN coll) \cup {k} |-> IF x = k THEN v ELSE coll[x]]

\* ------------------------------------------------------------- upsertUser
\* variant: the referrer is assigned on every contact that carries a code
upsertUserOverwrite(current, exists, userId, username, referrerId) ==
  IF ~exists
  THEN StoreValue([id |-> userId, username |-> username, referrer |-> referrerId,
                   points |-> 0, completedInstalls |-> 0, taskCompleted |-> FALSE],
                  {"username", "referrer"})
  ELSE LET c1 == IF referrerId # Null
                 THEN Put(current, "referrer", referrerId) ELSE current
           c2 == IF Str(c1, "username") = Null /\ username # Null
                 THEN Put(c1, "username", username) ELSE c1
       IN c2

\* variant: the record is written afresh on every contact (set, not update)
upsertUserRecreate(current, exists, userId, username, referrerId) ==
  StoreValue([id |-> userId, username |-> username, referrer |-> referrerId,
              points |-> 0, completedInstalls |-> 0, taskCompleted |-> FALSE],
             {"username", "referrer"})

\* variant: a contact that carries a name renames the user
upsertUserRename(current, exists, userId, username, referrerId) ==
  IF ~exists
  THEN StoreValue([id |-> userId, username |-> username, referrer |-> referrerId,
                   points |-> 0, completedInstalls |-> 0, taskCompleted |-> FALSE],
                  {"username", "referrer"})
  ELSE LET c1 == IF Str(current, "referrer") = Null /\ referrerId # Null
                 THEN Put(current, "referrer", referrerId) ELSE current
           c2 == IF username # Null
                 THEN Put(c1, "username", username) ELSE c1
       IN c2

\* variant: a contact of a known user starts its counters again
upsertUserResetPoints(current, exists, userId, username, referrerId) ==
  IF ~exists
  THEN StoreValue([id |-> userId, username |-> username, referrer |-> referrerId,
                   points |-> 0, completedInstalls |-> 0, taskCompleted |-> FALSE],
                  {"username", "referrer"})
  ELSE LET c0 == Put(Put(current, "points", 0), "completedInstalls", 0)
           c1 == IF Str(c0, "referrer") = Null /\ referrerId # Null
                 THEN Put(c0, "referrer", referrerId) ELSE c0
           c2 == IF Str(c1, "username") = Null /\ username # Null
                 THEN Put(c1, "username", username) ELSE c1
       IN c2

upsertUser(current, exists, userId, username, referrerId) ==
  IF ~exists
  THEN StoreValue([id |-> userId, username |-> username, referrer |-> referrerId,
                   points |-> 0, completedInstalls |-> 0, taskCompleted |-> FALSE],
                  {"username", "referrer"})
  ELSE LET c1 == IF Str(current, "referrer") = Null /\ referrerId # Null
                 THEN Put(current, "referrer", referrerId) ELSE current
           c2 == IF Str(c1, "username") = Null /\ username # Null
                 THEN Put(c1, "username", username) ELSE c1
       IN c2

\* ---------------------------------------------------------- bumpLeaderboard
bumpLeaderboard(cur, exists, delta, username) ==
  IF ~exists
  THEN StoreValue([points |-> delta, username |-> username], {"username"})
  ELSE LET c1 == Put(cur, "points", OrZero(cur, "points") + delta)
       IN IF username # Null /\ Str(c1, "username") = Null
          THEN Put(c1, "username", username) ELSE c1

\* ------------------------------------------------------------- /start
\* const referrerId = (refCode && refCode !== chatId) ? refCode : null
\* variant: no self-referral guard
StartReferrerIdNoGuard(chatId, refCode) == refCode

StartReferrerId(chatId, refCode) ==
  IF refCode # Null /\ refCode # chatId THEN refCode ELSE Null

\* lines 376-383: the handler up to the commit of upsertUser's transaction
StartCore(chatId, refCode, username) ==
  LET referrerId == StartReferrerId(chatId, refCode)
      exists == chatId \in DOMAIN users
      cur == IF exists THEN users[chatId] ELSE <<>>
  IN /\ users' = Write(users, chatId, upsertUser(cur, exists, chatId, username, referrerId))
     /\ UNCHANGED <<secret, leaderboard, installs, req>>

Start(chatId, refCode, username) ==
  /\ StartCore(chatId, refCode, username)
  /\ UNCHANGED <<startLog, top, chat>>

\* the same step, with the command appended to the history
StartLogged(chatId, refCode, username) ==
  /\ Len(startLog) < MaxStarts
  /\ StartCore(chatId, refCode, username)
  /\ startLog' = Append(startLog, [chatId |-> chatId, refCode |-> refCode])
  /\ UNCHANGED <<top, chat>>

\* ------------------------------------------------------------- callback
NoResp == [code |-> 0, ok |-> FALSE, body |-> "none"]
Resp(code, ok, body) == [code |-> code, ok |-> ok, body |-> body]

IdleReq == [pc |-> "idle", installId |-> Null, userRefId |-> Null,
            providerStatus |-> Null, sig |-> "missing", status |-> Null,
            referrerId |-> Null, refUsername |-> Null, resp |-> NoResp, sent |-> 0]

\* String(providerStatus || 'completed').toLowerCase()
ToLower(s) ==
  CASE s = "Paid" -> "paid"
    [] s = "COMPLETED" -> "completed"
    [] OTHER -> s

\* variant: no default for a status that is missing
NormalizeStatusNoDefault(providerStatus) == ToLower(providerStatus)

\* (an absent, null or empty providerStatus is falsy)
NormalizeStatus(providerStatus) ==
  ToLower(IF providerStatus \in {Null, ""} THEN "completed" ELSE providerStatus)

\* variant: pending counted as success
okStatusesLoose == {"completed", "approved", "paid", "success", "pending"}

okStatuses == {"completed", "approved", "paid", "success"}

SigChars(sig) ==
  CASE sig = "missing" -> 0
    [] sig = "badlen" -> DigestLen - 1
    [] OTHER -> DigestLen

SigBytes(sig) ==
  CASE sig = "missing" -> 0
    [] sig = "badlen" -> DigestLen - 1
    [] sig = "nonascii" -> DigestLen + 1
    [] OTHER -> DigestLen

\* outcome of
\*   !sig || expected.length !== sig.length || !crypto.timingSafeEqual(...)
\* "throw": timingSafeEqual raises RangeError on buffers of different byte length
SigCheck(sig) ==
  IF sig = "missing" \/ SigChars(sig) # DigestLen THEN "reject"
  ELSE IF SigBytes(sig) # DigestLen THEN "throw"
  ELSE IF sig # "good" THEN "reject"
  ELSE "pass"

InFlight(r) == req[r].pc # "idle" /\ req[r].sent = 0

Respond(rq, code, ok, body) ==
  [rq EXCEPT !.resp = Resp(code, ok, body), !.sent = rq.sent + 1]

\* lines 461-475: the synchronous head of the handler
Validate(rq) ==
  IF secret = "" THEN Respond(rq, 500, FALSE, "provider secret not set")
  ELSE IF SigCheck(rq.sig) = "reject" THEN Respond(rq, 403, FALSE, "bad signature")
  ELSE IF SigCheck(rq.sig) = "throw" THEN Respond(rq, 500, FALSE, "RangeError")
  ELSE IF rq.installId = Null \/ rq.userRefId = Null
       THEN Respond(rq, 400, FALSE, "missing fields")
  ELSE IF rq.status \notin okStatuses THEN Respond(rq, 200, TRUE, "ignored")
  ELSE [rq EXCEPT !.pc = "readInst"]

CallbackReceive(r, installId, userRefId, providerStatus, sig) ==
  /\ req[r].pc = "idle"
  /\ \A q \in Slots : q < r => req[q].pc # "idle"
  /\ LET rq == [IdleReq EXCEPT !.pc = "validate", !.installId = installId,
                               !.userRefId = userRefId,
                               !.providerStatus = providerStatus, !.sig = sig,
                               !.status = NormalizeStatus(providerStatus)]
     IN req' = [req EXCEPT ![r] = Validate(rq)]
  /\ UNCHANGED <<secret, users, leaderboard, installs, startLog, top, chat>>

\* variant: the catch block removes the install record again
FaultRollback(r, msg) ==
  /\ InFlight(r)
  /\ req[r].pc \in {"readInst", "setInst", "loadUser", "txUser", "readRef", "txRef", "bumpLb"}
  /\ req' = [req EXCEPT ![r] = Respond(req[r], 500, FALSE, msg)]
  /\ installs' = [i \in (DOMAIN installs) \ {req[r].installId} |-> installs[i]]
  /\ UNCHANGED <<secret, users, leaderboard, startLog, top, chat>>

\* a store operation of request r rejects: the catch block answers 500
\* with err.message (lines 511-514); the request stops where it is
Fault(r, msg) ==
  /\ InFlight(r)
  /\ req[r].pc \in {"readInst", "setInst", "loadUser", "txUser", "readRef", "txRef", "bumpLb"}
  /\ req' = [req EXCEPT ![r] = Respond(req[r], 500, FALSE, msg)]
  /\ UNCHANGED <<secret, users, leaderboard, installs, startLog, top, chat>>

\* lines 479-480: instSnap = await instRef.once('value'); exists -> alreadyProcessed
\* variant: the existence check never finds the record
InstExistsNever(i) == FALSE

InstExists(i) == i \in DOMAIN installs

ReadInst(r) ==
  /\ InFlight(r) /\ req[r].pc = "readInst"
  /\ req' = [req EXCEPT ![r] =
               IF InstExists(req[r].installId)
               THEN Respond(req[r], 200, TRUE, "alreadyProcessed")
               ELSE [req[r] EXCEPT !.pc = "setInst"]]
  /\ UNCHANGED <<secret, users, leaderboard, installs, startLog, top, chat>>

\* line 481: await instRef.set({ installId, userRefId, providerStatus: status, at })
InstallRecord(rq) ==
  [installId |-> rq.installId, userRefId |-> rq.userRefId, providerStatus |-> rq.status]

SetInst(r) ==
  /\ InFlight(r) /\ req[r].pc = "setInst"
  /\ installs' = Write(installs, req[r].installId, InstallRecord(req[r]))
  /\ req' = [req EXCEPT ![r].pc = "loadUser"]
  /\ UNCHANGED <<secret, users, leaderboard, startLog, top, chat>>

\* lines 484-487: userSnap = await userRef.once('value'); absent -> user-not-found
\* (line 498 reads the referrer from this snapshot)
\* variant: no existence check, the handler goes on to the transaction
LoadUserProceed(r) ==
  /\ InFlight(r) /\ req[r].pc = "loadUser"
  /\ req' = [req EXCEPT ![r] =
               [req[r] EXCEPT !.pc = "txUser",
                              !.referrerId = IF req[r].userRefId \in DOMAIN users
                                             THEN Str(users[req[r].userRefId], "referrer")
                                             ELSE Null]]
  /\ UNCHANGED <<secret, users, leaderboard, installs, startLog, top, chat>>

LoadUser(r) ==
  /\ InFlight(r) /\ req[r].pc = "loadUser"
  /\ req' = [req EXCEPT ![r] =
               IF req[r].userRefId \notin DOMAIN users
               THEN Respond(req[r], 200, TRUE, "user-not-found")
               ELSE [req[r] EXCEPT !.pc = "txUser",
                                   !.referrerId = Str(users[req[r].userRefId], "referrer")]]
  /\ UNCHANGED <<secret, users, leaderboard, installs, startLog, top, chat>>

\* lines 490-495: the update function of userRef.transaction
\* variant: the counter is set to 1, not incremented
MarkCompletedSet(cur, exists) ==
  IF ~exists THEN [completedInstalls |-> 1, taskCompleted |-> TRUE]
  ELSE Put(Put(cur, "completedInstalls", 1), "taskCompleted", TRUE)

MarkCompleted(cur, exists) ==
  IF ~exists THEN [completedInstalls |-> 1, taskCompleted |-> TRUE]
  ELSE Put(Put(cur, "completedInstalls", OrZero(cur, "completedInstalls") + 1),
           "taskCompleted", TRUE)

\* line 499: if (referrerId && referrerId !== String(userRefId))
ShouldCredit(rq) == rq.referrerId # Null /\ rq.referrerId # rq.userRefId

TxUser(r) ==
  /\ InFlight(r) /\ req[r].pc = "txUser"
  /\ LET u == req[r].userRefId
         exists == u \in DOMAIN users
         cur == IF exists THEN users[u] ELSE <<>>
     IN users' = Write(users, u, MarkCompleted(cur, exists))
  /\ req' = [req EXCEPT ![r] =
               IF ShouldCredit(req[r])
               THEN [req[r] EXCEPT !.pc = "readRef"]
               ELSE Respond([req[r] EXCEPT !.pc = "end"], 200, TRUE, "ok")]
  /\ UNCHANGED <<secret, leaderboard, installs, startLog, top, chat>>

\* lines 500-501: refUser = refSnap.val() || {}  (only refUser.username is used)
ReadRef(r) ==
  /\ InFlight(r) /\ req[r].pc = "readRef"
  /\ LET a == req[r].referrerId
     IN req' = [req EXCEPT ![r].pc = "txRef",
                           ![r].refUsername = IF a \in DOMAIN users
                                              THEN Str(users[a], "username") ELSE Null]
  /\ UNCHANGED <<secret, users, leaderboard, installs, startLog, top, chat>>

\* lines 502-506: the update function of the referrer's transaction
\* variant: a referrer without a record gets a record with no points
AddPointsNoCreate(cur, exists) ==
  IF ~exists THEN [points |-> 0]
  ELSE Put(cur, "points", OrZero(cur, "points") + POINTS_FOR_COMPLETION)

AddPoints(cur, exists) ==
  IF ~exists THEN [points |-> POINTS_FOR_COMPLETION]
  ELSE Put(cur, "points", OrZero(cur, "points") + POINTS_FOR_COMPLETION)

\* variant: the referrer of the referrer is credited as well
TxRefChain(r) ==
  /\ InFlight(r) /\ req[r].pc = "txRef"
  /\ LET a == req[r].referrerId
         exists == a \in DOMAIN users
         cur == IF exists THEN users[a] ELSE <<>>
         q == IF exists THEN Str(cur, "referrer") ELSE Null
         u1 == Write(users, a,
                     IF exists
                     THEN Put(cur, "points", OrZero(cur, "points") + POINTS_FOR_COMPLETION)
                     ELSE [points |-> POINTS_FOR_COMPLETION])
     IN users' = IF q = Null \/ q \notin DOMAIN u1 THEN u1
                 ELSE Write(u1, q, Put(u1[q], "points",
                                       OrZero(u1[q], "points") + POINTS_FOR_COMPLETION))
  /\ req' = [req EXCEPT ![r].pc = "bumpLb"]
  /\ UNCHANGED <<secret, leaderboard, installs, startLog, top, chat>>

\* variant: the leaderboard entry is written in the place of the user record
TxRefLeaderboardFirst(r) ==
  /\ InFlight(r) /\ req[r].pc = "txRef"
  /\ LET a == req[r].referrerId
         exists == a \in DOMAIN leaderboard
         cur == IF exists THEN leaderboard[a] ELSE <<>>
     IN leaderboard' = Write(leaderboard, a,
                             IF exists
                             THEN Put(cur, "points", OrZero(cur, "points") + POINTS_FOR_COMPLETION)
                             ELSE [points |-> POINTS_FOR_COMPLETION])
  /\ req' = [req EXCEPT ![r].pc = "bumpLb"]
  /\ UNCHANGED <<secret, users, installs, startLog, top, chat>>

TxRef(r) ==
  /\ InFlight(r) /\ req[r].pc = "txRef"
  /\ LET a == req[r].referrerId
         exists == a \in DOMAIN users
         cur == IF exists THEN users[a] ELSE <<>>
     IN users' = Write(users, a, AddPoints(cur, exists))
  /\ req' = [req EXCEPT ![r].pc = "bumpLb"]
  /\ UNCHANGED <<secret, leaderboard, installs, startLog, top, chat>>

\* lines 507-510: await bumpLeaderboard(...); return res.json({ ok:true })
BumpLb(r) ==
  /\ InFlight(r) /\ req[r].pc = "bumpLb"
  /\ LET a == req[r].referrerId
         exists == a \in DOMAIN leaderboard
         cur == IF exists THEN leaderboard[a] ELSE <<>>
     IN leaderboard' = Write(leaderboard, a,
                             bumpLeaderboard(cur, exists, POINTS_FOR_COMPLETION,
                                             req[r].refUsername))
  /\ req' = [req EXCEPT ![r] = Respond([req[r] EXCEPT !.pc = "end"], 200, TRUE, "ok")]
  /\ UNCHANGED <<secret, users, installs, startLog, top, chat>>

\* ------------------------------------------ GET /leaderboard/top/:n
MaxTop == 2
TopSlots == 1..MaxTop

\* values of the path parameter n
TopParams == {"0", "-3", "1", "2", "101", "abc"}

\* a JavaScript number: an integer or NaN
NaN == [nan |-> TRUE, val |-> 0]
Num(v) == [nan |-> FALSE, val |-> v]

\* parseInt(req.params.n || '50', 10); the route matches no empty parameter
ParseInt(p) ==
  CASE p = "0" -> Num(0)
    [] p = "-3" -> Num(0 - 3)
    [] p = "1" -> Num(1)
    [] p = "2" -> Num(2)
    [] p = "101" -> Num(101)
    [] OTHER -> NaN

\* Math.max and Math.min return NaN when an argument is NaN
MathMax(a, x) == IF x.nan THEN NaN ELSE Num(IF x.val > a THEN x.val ELSE a)
MathMin(a, x) == IF x.nan THEN NaN ELSE Num(IF x.val < a THEN x.val ELSE a)

\* const n = Math.min(100, Math.max(1, parseInt(...)))
TopN(p) == MathMin(100, MathMax(1, ParseInt(p)))

\* limitToLast(n) accepts positive integers only and throws otherwise
LimitOk(n) == ~n.nan /\ n.val > 0

\* the order of the keys of the store
IdRank == [A |-> 1, B |-> 2, C |-> 3]

Entry(lb, k) == [userId |-> k, points |-> OrZero(lb[k], "points")]

\* orderByChild('points'): ascending by points, equal points ascending by key
RECURSIVE ByPointsThenKey(_, _)
ByPointsThenKey(lb, S) ==
  IF S = {} THEN <<>>
  ELSE LET m == CHOOSE x \in S : \A y \in S :
                   \/ OrZero(lb[x], "points") < OrZero(lb[y], "points")
                   \/ /\ OrZero(lb[x], "points") = OrZero(lb[y], "points")
                      /\ IdRank[x] <= IdRank[y]
       IN <<m>> \o ByPointsThenKey(lb, S \ {m})

\* limitToLast(n): the keys of the last n children in that order
LimitToLast(lb, n) ==
  LET all == ByPointsThenKey(lb, DOMAIN lb)
      from == IF Len(all) > n THEN Len(all) - n + 1 ELSE 1
  IN {all[k] : k \in from..Len(all)}

\* Object.keys(obj): the keys of the snapshot value, in key order
RECURSIVE ObjectKeys(_)
ObjectKeys(S) ==
  IF S = {} THEN <<>>
  ELSE LET m == CHOOSE x \in S : \A y \in S : IdRank[x] <= IdRank[y]
       IN <<m>> \o ObjectKeys(S \ {m})

\* arr.sort((a,b) => (b.points||0) - (a.points||0)): stable, descending
SortInsert(sorted, e) ==
  LET k == Cardinality({j \in 1..Len(sorted) : sorted[j].points >= e.points})
  IN SubSeq(sorted, 1, k) \o <<e>> \o SubSeq(sorted, k + 1, Len(sorted))

RECURSIVE SortByPointsDesc(_)
SortByPointsDesc(arr) ==
  IF arr = <<>> THEN <<>>
  ELSE SortInsert(SortByPointsDesc(SubSeq(arr, 1, Len(arr) - 1)), arr[Len(arr)])

\* lines 526-528: the array the handler answers with
TopArray(lb, n) ==
  LET keys == ObjectKeys(LimitToLast(lb, n))
  IN SortByPointsDesc([k \in 1..Len(keys) |-> Entry(lb, keys[k])])

IdleTop == [pc |-> "idle", param |-> "1", n |-> Num(1), arr |-> <<>>, seen |-> <<>>]

\* line 525 and the construction of the query of line 526
TopReceive(t, p) ==
  /\ top[t].pc = "idle"
  /\ \A q \in TopSlots : q < t => top[q].pc # "idle"
  /\ top' = [top EXCEPT ![t] = [top[t] EXCEPT !.param = p, !.n = TopN(p),
                                  !.pc = IF LimitOk(TopN(p)) THEN "query" ELSE "threw"]]
  /\ UNCHANGED <<secret, users, leaderboard, installs, req, startLog, chat>>

\* lines 526-529: the read resolves and the handler answers
\* (seen: the leaderboard as it was read)
TopQuery(t) ==
  /\ top[t].pc = "query"
  /\ top' = [top EXCEPT ![t] = [top[t] EXCEPT !.pc = "done",
                                  !.arr = TopArray(leaderboard, top[t].n.val),
                                  !.seen = leaderboard]]
  /\ UNCHANGED <<secret, users, leaderboard, installs, req, startLog, chat>>

\* the read rejects: the handler has no catch, the request gets no answer
TopFault(t) ==
  /\ top[t].pc = "query"
  /\ top' = [top EXCEPT ![t].pc = "faulted"]
  /\ UNCHANGED <<secret, users, leaderboard, installs, req, startLog, chat>>

\* ------------------------------------------------- chat command handlers
\* the links are built with the bot's name, fetched when the server starts
\* (lines 532-539); the handlers are followed from their first store
\* operation to their last send
MaxChat == 3
ChatSlots == 1..MaxChat

\* ADMIN_CHAT_ID
AdminChatId == "A"

\* pc      : idle, loop (the loop of /broadcast), send (the last send), done,
\*           unhandled (the handler's promise rejected)
\* guarded : the send stands in a try/catch
\* sent    : the calls of bot.sendMessage so far, ok = resolved
\* logged  : the calls of logger.warn so far
IdleChat == [pc |-> "idle", cmd |-> "none", chatId |-> Null, to |-> Null,
             guarded |-> FALSE, text |-> "none", targets |-> <<>>, pos |-> 0,
             sent |-> <<>>, logged |-> 0]

ChatIdle(h) ==
  /\ chat[h].pc = "idle"
  /\ \A q \in ChatSlots : q < h => chat[q].pc # "idle"

\* lines 376-407: /start, the send of line 404 stands in try/catch
StartChat(h, chatId, refCode, username) ==
  /\ ChatIdle(h)
  /\ StartCore(chatId, refCode, username)
  /\ chat' = [chat EXCEPT ![h] = [IdleChat EXCEPT !.pc = "send", !.cmd = "start",
                                    !.chatId = chatId, !.to = chatId,
                                    !.guarded = TRUE, !.text = "welcome"]]
  /\ UNCHANGED <<startLog, top>>

\* lines 411-415: /ref
RefCmd(h, chatId) ==
  /\ ChatIdle(h)
  /\ chat' = [chat EXCEPT ![h] = [IdleChat EXCEPT !.pc = "send", !.cmd = "ref",
                                    !.chatId = chatId, !.to = chatId,
                                    !.text = "link"]]
  /\ UNCHANGED <<secret, users, leaderboard, installs, req, startLog, top>>

\* lines 418-431: /leaderboard, up to the send of line 424 or of line 430
LeaderboardCmd(h, chatId) ==
  /\ ChatIdle(h)
  /\ chat' = [chat EXCEPT ![h] = [IdleChat EXCEPT !.pc = "send", !.cmd = "leaderboard",
                                    !.chatId = chatId, !.to = chatId,
                                    !.text = IF TopArray(leaderboard, 50) = <<>>
                                             THEN "empty" ELSE "list"]]
  /\ UNCHANGED <<secret, users, leaderboard, installs, req, startLog, top>>

\* lines 434-438: /broadcast, up to the first send
BroadcastCmd(h, chatId) ==
  /\ ChatIdle(h)
  /\ LET targets == ObjectKeys(DOMAIN users)
         run == [IdleChat EXCEPT !.cmd = "broadcast", !.chatId = chatId]
     IN chat' = [chat EXCEPT ![h] =
                   IF chatId # AdminChatId THEN [run EXCEPT !.pc = "done"]
                   ELSE IF targets = <<>>
                        THEN [run EXCEPT !.pc = "send", !.to = AdminChatId, !.text = "sent"]
                        ELSE [run EXCEPT !.pc = "loop", !.targets = targets, !.pos = 1,
                                         !.guarded = TRUE, !.text = "broadcast"]]
  /\ UNCHANGED <<secret, users, leaderboard, installs, req, startLog, top>>

\* the run after its pending bot.sendMessage resolved (ok) or rejected:
\* a rejection in a try/catch is logged and the handler goes on (lines 405,
\* 440), a rejection elsewhere rejects the handler's promise
AfterSend(run, ok) ==
  LET to == IF run.pc = "loop" THEN run.targets[run.pos] ELSE run.to
      r1 == [run EXCEPT !.sent = Append(run.sent, [to |-> to, ok |-> ok]),
                        !.logged = IF ~ok /\ run.guarded THEN run.logged + 1 ELSE run.logged]
  IN IF run.pc = "loop"
     THEN IF run.pos < Len(run.targets)
          THEN [r1 EXCEPT !.pos = run.pos + 1]
          ELSE [r1 EXCEPT !.pc = "send", !.to = AdminChatId, !.guarded = FALSE,
                          !.text = "sent"]
     ELSE [r1 EXCEPT !.pc = IF ok \/ run.guarded THEN "done" ELSE "unhandled"]

SendSettles(h, ok) ==
  /\ chat[h].pc \in {"loop", "send"}
  /\ chat' = [chat EXCEPT ![h] = AfterSend(chat[h], ok)]
  /\ UNCHANGED <<secret, users, leaderboard, installs, req, startLog, top>>


\* the callbacks the provider (or anyone reaching the endpoint) sends
GoodPayloads ==
  {[installId |-> i, userRefId |-> "B", providerStatus |-> s] :
      i \in InstallIds, s \in Statuses}
  \cup {[installId |-> i, userRefId |-> "A", providerStatus |-> "completed"] :
          i \in InstallIds}
  \cup {[installId |-> Null, userRefId |-> "B", providerStatus |-> "completed"],
        [installId |-> "I1", userRefId |-> Null, providerStatus |-> "completed"]}

ForgedPayloads ==
  {[installId |-> "I1", userRefId |-> "B", providerStatus |-> "completed"],
   [installId |-> Null, userRefId |-> "B", providerStatus |-> "completed"],
   [installId |-> "I1", userRefId |-> "B", providerStatus |-> "pending"]}

Next ==
  \/ \E c \in ChatIds, refCode \in RefCodes \cup {Null}, n \in UserNames \cup {Null} :
        Start(c, refCode, n)
  \/ \E r \in Slots, p \in GoodPayloads :
        CallbackReceive(r, p.installId, p.userRefId, p.providerStatus, "good")
  \/ \E r \in Slots, p \in ForgedPayloads, g \in SigValues \ {"good"} :
        CallbackReceive(r, p.installId, p.userRefId, p.providerStatus, g)
  \/ \E r \in Slots : ReadInst(r)
  \/ \E r \in Slots : SetInst(r)
  \/ \E r \in Slots : LoadUser(r)
  \/ \E r \in Slots : TxUser(r)
  \/ \E r \in Slots : ReadRef(r)
  \/ \E r \in Slots : TxRef(r)
  \/ \E r \in Slots : BumpLb(r)
  \/ \E r \in Slots, m \in FaultMsgs : Fault(r, m)

Init ==
  /\ secret \in Secrets
  /\ users = <<>>
  /\ leaderboard = <<>>
  /\ installs = <<>>
  /\ req = [r \in Slots |-> IdleReq]
  /\ startLog = <<>>
  /\ top = [t \in TopSlots |-> IdleTop]
  /\ chat = [h \in ChatSlots |-> IdleChat]

Spec == Init /\ [][Next]_vars

\* ------------------------------------------- sequential use of the server
\* no request in flight
Quiescent == \A r \in Slots : ~InFlight(r)

\* every command and callback starts after the previous one has responded
NextSeq ==
  \/ /\ Quiescent
     /\ \E c \in ChatIds, refCode \in RefCodes \cup {Null}, n \in UserNames \cup {Null} :
           Start(c, refCode, n)
  \/ /\ Quiescent
     /\ \E r \in Slots, p \in GoodPayloads :
           CallbackReceive(r, p.installId, p.userRefId, p.providerStatus, "good")
  \/ /\ Quiescent
     /\ \E r \in Slots, p \in ForgedPayloads, g \in SigValues \ {"good"} :
           CallbackReceive(r, p.installId, p.userRefId, p.providerStatus, g)
  \/ \E r \in Slots : ReadInst(r)
  \/ \E r \in Slots : SetInst(r)
  \/ \E r \in Slots : LoadUser(r)
  \/ \E r \in Slots : TxUser(r)
  \/ \E r \in Slots : ReadRef(r)
  \/ \E r \in Slots : TxRef(r)
  \/ \E r \in Slots : BumpLb(r)
  \/ \E r \in Slots, m \in FaultMsgs : Fault(r, m)

SpecSeq == Init /\ [][NextSeq]_vars

\* ----------------------------- /start commands with their history recorded
\* MaxStarts commands, interleaved with the steps of MaxLogReq callbacks
MaxLogReq == 1
LogSlots == 1..MaxLogReq

NextRef ==
  \/ \E c \in ChatIds, refCode \in RefCodes \cup {Null}, n \in UserNames \cup {Null} :
        StartLogged(c, refCode, n)
  \/ \E r \in LogSlots, p \in GoodPayloads :
        CallbackReceive(r, p.installId, p.userRefId, p.providerStatus, "good")
  \/ \E r \in LogSlots, p \in ForgedPayloads, g \in SigValues \ {"good"} :
        CallbackReceive(r, p.installId, p.userRefId, p.providerStatus, g)
  \/ \E r \in LogSlots : ReadInst(r)
  \/ \E r \in LogSlots : SetInst(r)
  \/ \E r \in LogSlots : LoadUser(r)
  \/ \E r \in LogSlots : TxUser(r)
  \/ \E r \in LogSlots : ReadRef(r)
  \/ \E r \in LogSlots : TxRef(r)
  \/ \E r \in LogSlots : BumpLb(r)
  \/ \E r \in LogSlots, m \in FaultMsgs : Fault(r, m)

SpecRef == Init /\ [][NextRef]_vars

\* ------------------------------- callbacks for several installs of one user
\* the users register without a name; every callback is a signed success
\* callback for an install of B
InstallIds2 == {"I1", "I2"}

NextInst ==
  \/ \E c \in ChatIds, refCode \in RefCodes \cup {Null} : Start(c, refCode, Null)
  \/ \E r \in Slots, i \in InstallIds2 : CallbackReceive(r, i, "B", "completed", "good")
  \/ \E r \in Slots : ReadInst(r)
  \/ \E r \in Slots : SetInst(r)
  \/ \E r \in Slots : LoadUser(r)
  \/ \E r \in Slots : TxUser(r)
  \/ \E r \in Slots : ReadRef(r)
  \/ \E r \in Slots : TxRef(r)
  \/ \E r \in Slots : BumpLb(r)
  \/ \E r \in Slots, m \in FaultMsgs : Fault(r, m)

SpecInst == Init /\ [][NextInst]_vars

\* ----------------------------------------- users who change their names
\* /start commands with two display names, callbacks for two installs of B
UserNames2 == {"ann", "bob"}

NextName ==
  \/ \E c \in ChatIds, refCode \in {"A", Null}, n \in UserNames2 \cup {Null} :
        Start(c, refCode, n)
  \/ \E r \in Slots, i \in InstallIds2 : CallbackReceive(r, i, "B", "completed", "good")
  \/ \E r \in Slots : ReadInst(r)
  \/ \E r \in Slots : SetInst(r)
  \/ \E r \in Slots : LoadUser(r)
  \/ \E r \in Slots : TxUser(r)
  \/ \E r \in Slots : ReadRef(r)
  \/ \E r \in Slots : TxRef(r)
  \/ \E r \in Slots : BumpLb(r)
  \/ \E r \in Slots, m \in FaultMsgs : Fault(r, m)

SpecName == Init /\ [][NextName]_vars

\* ------------------------------------------- readers of the leaderboard
\* A and B refer each other and complete one install each; the leaderboard is
\* read while the callbacks run
NextTop ==
  \/ \E c \in ChatIds, refCode \in ChatIds : Start(c, refCode, Null)
  \/ \E r \in Slots : CallbackReceive(r, "I1", "B", "completed", "good")
  \/ \E r \in Slots : CallbackReceive(r, "I2", "A", "completed", "good")
  \/ \E r \in Slots : ReadInst(r)
  \/ \E r \in Slots : SetInst(r)
  \/ \E r \in Slots : LoadUser(r)
  \/ \E r \in Slots : TxUser(r)
  \/ \E r \in Slots : ReadRef(r)
  \/ \E r \in Slots : TxRef(r)
  \/ \E r \in Slots : BumpLb(r)
  \/ \E t \in TopSlots, p \in TopParams : TopReceive(t, p)
  \/ \E t \in TopSlots : TopQuery(t)
  \/ \E t \in TopSlots : TopFault(t)

SpecTop == Init /\ [][NextTop]_vars

\* ------------------------------------------------ store faults of two kinds
\* the messages of the errors the store client rejects with
FaultMsgs2 == {"ETIMEDOUT", "PERMISSION_DENIED"}

NextFault ==
  \/ \E c \in ChatIds, refCode \in {"A", Null} : Start(c, refCode, Null)
  \/ \E r \in Slots : CallbackReceive(r, "I1", "B", "completed", "good")
  \/ \E r \in Slots : ReadInst(r)
  \/ \E r \in Slots : SetInst(r)
  \/ \E r \in Slots : LoadUser(r)
  \/ \E r \in Slots : TxUser(r)
  \/ \E r \in Slots : ReadRef(r)
  \/ \E r \in Slots : TxRef(r)
  \/ \E r \in Slots : BumpLb(r)
  \/ \E r \in Slots, m \in FaultMsgs2 : Fault(r, m)

SpecFault == Init /\ [][NextFault]_vars

\* ------------------------------------------------------- chat commands
\* the chat commands with their sends, beside the steps of one callback
NextChat ==
  \/ \E h \in ChatSlots, c \in ChatIds, refCode \in {"A", "C", Null} :
        StartChat(h, c, refCode, Null)
  \/ \E h \in ChatSlots, c \in ChatIds : RefCmd(h, c)
  \/ \E h \in ChatSlots, c \in ChatIds : LeaderboardCmd(h, c)
  \/ \E h \in ChatSlots, c \in ChatIds : BroadcastCmd(h, c)
  \/ \E h \in ChatSlots, ok \in BOOLEAN : SendSettles(h, ok)
  \/ \E r \in LogSlots : CallbackReceive(r, "I1", "B", "completed", "good")
  \/ \E r \in LogSlots : ReadInst(r)
  \/ \E r \in LogSlots : SetInst(r)
  \/ \E r \in LogSlots : LoadUser(r)
  \/ \E r \in LogSlots : TxUser(r)
  \/ \E r \in LogSlots : ReadRef(r)
  \/ \E r \in LogSlots : TxRef(r)
  \/ \E r \in LogSlots : BumpLb(r)

SpecChat == Init /\ [][NextChat]_vars

\* ------------------------------------------------------ referral chains
\* D is referred by B, B by A, A by C; installs of B and of D
ChainChats == {"A", "B", "D"}
ChainIds == ChainChats \cup RefCodes

NextChain ==
  \/ \E c \in ChainChats, refCode \in RefCodes : Start(c, refCode, Null)
  \/ \E r \in Slots, u \in {"B", "D"} : CallbackReceive(r, "I1", u, "completed", "good")
  \/ \E r \in Slots : ReadInst(r)
  \/ \E r \in Slots : SetInst(r)
  \/ \E r \in Slots : LoadUser(r)
  \/ \E r \in Slots : TxUser(r)
  \/ \E r \in Slots : ReadRef(r)
  \/ \E r \in Slots : TxRef(r)
  \/ \E r \in Slots : BumpLb(r)
  \/ \E r \in Slots, m \in FaultMsgs : Fault(r, m)

SpecChain == Init /\ [][NextChain]_vars

\* ------------------------------------------- the spellings of the status
\* signed callbacks for one install of B whose providerStatus is absent
\* (Null), empty, or spelled in upper, mixed or lower case
Statuses2 == {Null, "", "COMPLETED", "Paid", "completed", "pending"}

NextStatus ==
  \/ \E c \in ChatIds, refCode \in {"A", Null} : Start(c, refCode, Null)
  \/ \E r \in Slots, st \in Statuses2 : CallbackReceive(r, "I1", "B", st, "good")
  \/ \E r \in Slots : ReadInst(r)
  \/ \E r \in Slots : SetInst(r)
  \/ \E r \in Slots : LoadUser(r)
  \/ \E r \in Slots : TxUser(r)
  \/ \E r \in Slots : ReadRef(r)
  \/ \E r \in Slots : TxRef(r)
  \/ \E r \in Slots : BumpLb(r)
  \/ \E r \in Slots, m \in FaultMsgs : Fault(r, m)

SpecStatus == Init /\ [][NextStatus]_vars

\* ------------------------------------------------ vocabulary of the claims
StorePcs == {"readInst", "setInst", "loadUser", "txUser", "readRef", "txRef", "bumpLb"}
AfterLedger == {"loadUser", "txUser", "readRef", "txRef", "bumpLb"}

Done(r) == req[r].sent > 0
\* passed the synchronous checks and went on to the store
Accepted(r) == req[r].pc \notin {"idle", "validate"}
\* ended in the catch block because a store operation rejected
Faulted(r) == Done(r) /\ req[r].pc \in StorePcs /\ req[r].resp.code = 500
NoFaults == \A r \in Slots : ~Faulted(r)
\* saw installs/{installId} absent and went on to write it
PastCheck(r) == req[r].pc \in ({"setInst", "end"} \cup AfterLedger)
\* wrote installs/{installId}
Ledgered(r) == req[r].pc \in ({"end"} \cup AfterLedger)
\* the referrer's users/{id}.points transaction of request r committed
CreditedUser(r) == req[r].pc \in {"bumpLb", "end"} /\ ShouldCredit(req[r])
\* the referrer's leaderboard/{id} transaction of request r committed
CreditedLb(r) == req[r].pc = "end" /\ ShouldCredit(req[r])

UserPoints(a) == IF a \in DOMAIN users THEN OrZero(users[a], "points") ELSE 0
LbPoints(a) == IF a \in DOMAIN leaderboard THEN OrZero(leaderboard[a], "points") ELSE 0
Referrer(u) == IF u \in DOMAIN users THEN Str(users[u], "referrer") ELSE Null

\* the awards credited to a, in users/{a}.points
AwardsTo(a) ==
  POINTS_FOR_COMPLETION *
    Cardinality({r \in Slots : CreditedUser(r) /\ req[r].referrerId = a})

\* the installs that credited a
InstallsCrediting(a) ==
  {i \in DOMAIN installs :
     \E r \in Slots : req[r].installId = i /\ CreditedUser(r) /\ req[r].referrerId = a}

SuccessPayload(r) ==
  /\ req[r].sig = "good"
  /\ req[r].installId # Null /\ req[r].userRefId # Null
  /\ req[r].status \in {"completed", "approved", "paid", "success"}

\* ------------------------------------------------------------------ claims

\* C1: when the callback flow has run twice with the same success payload for
\* a registered user whose referrer is another registered user, and nothing is
\* in flight (no store fault), one InstallRecord exists and every install that
\* credited the referrer credited it exactly one completion award, in
\* users/{id}.points and in leaderboard/{id}.points.
C1_ExactlyOneCredit ==
  \A r1, r2 \in Slots :
     LET u == req[r1].userRefId
         a == Referrer(u)
     IN ( /\ r1 < r2 /\ Quiescent /\ NoFaults
          /\ SuccessPayload(r1) /\ SuccessPayload(r2)
          /\ Accepted(r1) /\ Accepted(r2)
          /\ req[r1].installId = req[r2].installId
          /\ req[r2].userRefId = u
          /\ req[r1].providerStatus = req[r2].providerStatus
          /\ a \notin {Null, u} /\ a \in DOMAIN users /\ Has(users[a], "id") )
        => /\ req[r1].installId \in DOMAIN installs
           /\ UserPoints(a) = POINTS_FOR_COMPLETION * Cardinality(InstallsCrediting(a))
           /\ LbPoints(a) = POINTS_FOR_COMPLETION * Cardinality(InstallsCrediting(a))

\* C2: when commands and callbacks run one after the other and no store
\* operation faults, every install credits the referrer of its user exactly
\* one award in users and in leaderboard (A.points = 1 after I1), and of the
\* callbacks accepted for an install all but the one that wrote the record
\* answer 200 alreadyProcessed, however many there are, the record staying as
\* first written and completedInstalls counting each install once.
C2_SequentialCredit ==
  (Quiescent /\ NoFaults) =>
     /\ \A a \in Ids :
          /\ UserPoints(a) = POINTS_FOR_COMPLETION * Cardinality(InstallsCrediting(a))
          /\ LbPoints(a) = UserPoints(a)
     /\ \A i \in InstallIds :
          /\ Cardinality({r \in Slots : req[r].installId = i /\ PastCheck(r)}) <= 1
          /\ \A r \in Slots :
               (Accepted(r) /\ req[r].installId = i /\ ~PastCheck(r)) =>
                  (req[r].resp = Resp(200, TRUE, "alreadyProcessed") /\ i \in DOMAIN installs)
          /\ \A r \in Slots :
               (req[r].installId = i /\ PastCheck(r)) =>
                  (i \in DOMAIN installs /\ installs[i] = InstallRecord(req[r]))
     /\ \A u \in DOMAIN users :
          OrZero(users[u], "completedInstalls") =
             Cardinality({i \in InstallIds :
                            \E r \in Slots : /\ req[r].installId = i /\ req[r].userRefId = u
                                             /\ req[r].pc = "end"})
     /\ \A r \in Slots :
          (req[r].pc = "end" /\ Referrer(req[r].userRefId) \notin {Null, req[r].userRefId}) =>
             \/ CreditedLb(r) /\ req[r].referrerId = Referrer(req[r].userRefId)
             \/ req[r].referrerId = Null

C2_Witness ==
  /\ Quiescent /\ NoFaults
  /\ "A" \in DOMAIN users /\ Referrer("A") = Null /\ Referrer("B") = "A"
  /\ UserPoints("A") = 1 /\ LbPoints("A") = 1
  /\ \E r1, r2 \in Slots :
       /\ r1 < r2
       /\ req[r1].installId = "I1" /\ req[r1].userRefId = "B"
       /\ req[r1].providerStatus = "completed" /\ CreditedLb(r1)
       /\ req[r2].installId = "I1" /\ req[r2].userRefId = "B"
       /\ req[r2].providerStatus = "completed"
       /\ req[r2].resp = Resp(200, TRUE, "alreadyProcessed")

\* C3: a store fault after the InstallRecord was written answers 500 and
\* changes no store key, the record stays; a callback that reads an existing
\* record is answered alreadyProcessed (500 when that very read faults) and
\* changes no store key; a record once written is never removed.
C3_LedgerBlocksRetry ==
  [][\A r \in Slots :
       /\ (InFlight(r) /\ req[r].pc \in AfterLedger /\ req'[r].resp.code = 500) =>
             /\ req[r].installId \in DOMAIN installs
             /\ UNCHANGED <<users, leaderboard, installs>>
       /\ (InFlight(r) /\ req[r].pc = "readInst" /\ req[r].installId \in DOMAIN installs
             /\ req'[r] # req[r]) =>
             /\ req'[r].resp \in {Resp(200, TRUE, "alreadyProcessed")}
                                   \cup {Resp(500, FALSE, m) : m \in FaultMsgs}
             /\ req'[r].pc = "readInst"
             /\ UNCHANGED <<users, leaderboard, installs>>
       /\ \A i \in DOMAIN installs : i \in DOMAIN installs'
    ]_vars

C3_Witness ==
  \E r1, r2 \in Slots :
     /\ r1 < r2
     /\ Faulted(r1) /\ req[r1].pc \in AfterLedger /\ req[r1].pc # "bumpLb"
     /\ req[r1].referrerId = "A"
     /\ req[r2].installId = req[r1].installId
     /\ req[r2].resp = Resp(200, TRUE, "alreadyProcessed")
     /\ req[r1].installId \in DOMAIN installs
     /\ UserPoints("A") = 0 /\ LbPoints("A") = 0

\* C4: a referrer once non-null keeps its value in every step.
C4_ReferrerSticky ==
  [][\A u \in DOMAIN users :
       Str(users[u], "referrer") # Null =>
          (u \in DOMAIN users' /\ Str(users'[u], "referrer") = Str(users[u], "referrer"))
    ]_vars

C4_Witness ==
  /\ Referrer("B") = "A"
  /\ OrZero(users["B"], "completedInstalls") >= 1
  /\ UserPoints("A") >= 1
  /\ Has(users["B"], "username")

\* the committed /start commands of chat u, and the referrer candidates among
\* them (a code that is present and is not u's own id)
StartsOf(u) ==
  LET Mine(e) == e.chatId = u
  IN SelectSeq(startLog, Mine)

CandidatesOf(u) ==
  LET Cand(e) == e.chatId = u /\ e.refCode # Null /\ e.refCode # u
  IN SelectSeq(startLog, Cand)

\* C5: after any /start commands of a chat, in any order and interleaved with
\* callbacks, there is one user record for it and its referrer is the first
\* committed non-null candidate (null when there was none); a first contact
\* without a code does not prevent a later code from being taken.
C5_FirstCandidateWins ==
  \A u \in ChatIds :
     /\ StartsOf(u) # <<>> => u \in DOMAIN users
     /\ u \in DOMAIN users =>
          Str(users[u], "referrer") =
             IF CandidatesOf(u) = <<>> THEN Null ELSE CandidatesOf(u)[1].refCode

C5_Witness ==
  \E u \in ChatIds :
     /\ Len(StartsOf(u)) = 3
     /\ StartsOf(u)[1].refCode = Null
     /\ Len(CandidatesOf(u)) = 2
     /\ CandidatesOf(u)[1].refCode # CandidatesOf(u)[2].refCode
     /\ Referrer(u) = CandidatesOf(u)[1].refCode

\* C6: no user record names itself as referrer; a chat whose /start commands
\* carried no code but its own id has referrer null, and no install of that
\* user credits anybody.
C6_NoSelfReferral ==
  /\ \A u \in DOMAIN users : Str(users[u], "referrer") # u
  /\ \A u \in ChatIds :
       (StartsOf(u) # <<>> /\ \A k \in 1..Len(StartsOf(u)) : StartsOf(u)[k].refCode \in {Null, u})
          => /\ Referrer(u) = Null
             /\ \A r \in Slots : req[r].userRefId = u => ~CreditedUser(r)
             /\ \A r \in Slots :
                  (req[r].userRefId = u /\ req[r].pc = "end") =>
                     req[r].resp = Resp(200, TRUE, "ok")

C6_Witness ==
  \E u \in ChatIds, r \in Slots :
     /\ \E k \in 1..Len(startLog) : startLog[k] = [chatId |-> u, refCode |-> u]
     /\ \A k \in 1..Len(StartsOf(u)) : StartsOf(u)[k].refCode \in {Null, u}
     /\ Referrer(u) = Null
     /\ req[r].userRefId = u /\ req[r].pc = "end"
     /\ OrZero(users[u], "completedInstalls") = 1
     /\ \A a \in Ids : UserPoints(a) = 0 /\ LbPoints(a) = 0

\* C7: whenever no request is in flight, leaderboard/{id}.points equals the
\* awards credited to id and equals users/{id}.points, for every id.
C7_LeaderboardMirrorsPoints ==
  Quiescent =>
     \A a \in Ids : LbPoints(a) = AwardsTo(a) /\ LbPoints(a) = UserPoints(a)

\* the statuses the claim names as success
ClaimSuccess == {"completed", "approved", "paid", "success"}

\* C8: a callback with a good signature and both ids whose status, lowercased,
\* is no success status is answered 200 ignored in the step that receives it
\* and changes no store key; an InstallRecord exists only for an install that
\* a success callback wrote, so an ignored callback never stands in the way of
\* a later success callback.
C8_IgnoredNoEffect ==
  /\ [][\A r \in Slots :
          ( /\ req[r].pc = "idle" /\ req'[r].pc # "idle" /\ secret # ""
            /\ req'[r].sig = "good"
            /\ req'[r].installId # Null /\ req'[r].userRefId # Null
            /\ ToLower(req'[r].providerStatus) \notin ClaimSuccess \cup {Null} )
          => /\ req'[r].resp = Resp(200, TRUE, "ignored")
             /\ req'[r].sent = 1
             /\ UNCHANGED <<users, leaderboard, installs>>
       ]_vars
  /\ [](\A i \in DOMAIN installs :
          \E r \in Slots :
             /\ req[r].installId = i /\ Ledgered(r)
             /\ ToLower(req[r].providerStatus) \in ClaimSuccess \cup {Null}
             /\ installs[i].providerStatus \in ClaimSuccess)

C8_Witness ==
  \E r1, r2 \in Slots :
     /\ r1 < r2
     /\ req[r1].providerStatus = "pending" /\ req[r1].resp = Resp(200, TRUE, "ignored")
     /\ req[r2].installId = req[r1].installId
     /\ CreditedLb(r2)
     /\ UserPoints(req[r2].referrerId) = POINTS_FOR_COMPLETION
     /\ LbPoints(req[r2].referrerId) = POINTS_FOR_COMPLETION

\* C9: a callback whose signature header is missing or is not the digest is
\* refused in the step that receives it, before the fields are looked at, and
\* never reaches the store, whatever the payload and whatever the provider
\* secret; where a secret is set the answer is 403.
C9_BadSignature403 ==
  \A r \in Slots :
     (req[r].pc # "idle" /\ req[r].sig # "good") =>
        /\ req[r].pc = "validate" /\ req[r].sent = 1 /\ ~req[r].resp.ok
        /\ secret # "" => req[r].resp.code = 403

\* C10: on a server with a provider secret every callback is answered once,
\* and the status code follows the outcome: 403 for a missing or wrong
\* signature, 400 for a missing installId or userRefId (the store untouched),
\* 500 for a store fault, 200 with ok = true otherwise.
C10_StatusByOutcome ==
  \A r \in Slots :
     (req[r].pc # "idle" /\ secret # "") =>
        /\ req[r].sent <= 1
        /\ req[r].pc = "validate" => Done(r)
        /\ Done(r) =>
             IF req[r].sig # "good"
               THEN req[r].resp.code = 403 /\ req[r].pc = "validate"
             ELSE IF req[r].installId = Null \/ req[r].userRefId = Null
               THEN req[r].resp.code = 400 /\ req[r].pc = "validate"
             ELSE IF req[r].pc \in StorePcs
                       /\ req[r].resp.body \notin {"alreadyProcessed", "user-not-found"}
               THEN req[r].resp.code = 500
             ELSE req[r].resp.code = 200 /\ req[r].resp.ok

FaultResps == {Resp(500, FALSE, m) : m \in FaultMsgs}

\* C11: a callback that looks up a user who has no record is answered 200
\* user-not-found (500 when that read faults) with the InstallRecord in the
\* store, and that step and the ledger write before it change no user record
\* and no leaderboard entry; a callback that reads the ledger of an install
\* after another callback for it was answered user-not-found is a duplicate
\* (alreadyProcessed), changes no store key and goes no further, also when
\* the user has registered with a referrer in between.
C11_UserNotFound ==
  /\ [][\A r \in Slots :
          /\ (InFlight(r) /\ req[r].pc = "setInst" /\ req'[r] # req[r]) =>
                UNCHANGED <<users, leaderboard>>
          /\ ( /\ InFlight(r) /\ req[r].pc = "loadUser" /\ req'[r] # req[r]
               /\ req[r].userRefId \notin DOMAIN users ) =>
                /\ req'[r].resp \in {Resp(200, TRUE, "user-not-found")} \cup FaultResps
                /\ req'[r].pc = "loadUser" /\ req'[r].sent = 1
                /\ req[r].installId \in DOMAIN installs
                /\ UNCHANGED <<users, leaderboard, installs>>
          /\ ( /\ InFlight(r) /\ req[r].pc = "readInst" /\ req'[r] # req[r]
               /\ \E q \in Slots : /\ q # r /\ req[q].installId = req[r].installId
                                   /\ req[q].resp = Resp(200, TRUE, "user-not-found") ) =>
                /\ req'[r].resp \in {Resp(200, TRUE, "alreadyProcessed")} \cup FaultResps
                /\ req'[r].pc = "readInst" /\ req'[r].sent = 1
                /\ UNCHANGED <<users, leaderboard, installs>>
       ]_vars
  /\ [](\A r \in Slots :
          req[r].resp = Resp(200, TRUE, "user-not-found") =>
             /\ req[r].pc = "loadUser" /\ ~InFlight(r)
             /\ req[r].installId \in DOMAIN installs
             /\ installs[req[r].installId].installId = req[r].installId)

C11_Witness ==
  \E r1, r2 \in Slots :
     /\ r1 < r2
     /\ req[r1].userRefId = "B" /\ req[r1].resp = Resp(200, TRUE, "user-not-found")
     /\ req[r2].installId = req[r1].installId /\ req[r2].userRefId = "B"
     /\ req[r2].resp = Resp(200, TRUE, "alreadyProcessed")
     /\ Referrer("B") = "A" /\ "A" \in DOMAIN users
     /\ OrZero(users["B"], "completedInstalls") = 0
     /\ DOMAIN leaderboard = {}
     /\ \A a \in Ids : UserPoints(a) = 0

\* the user update of request r committed
UserUpdated(r) == req[r].pc \in {"readRef", "txRef", "bumpLb", "end"}
Updates(u) == {r \in Slots : req[r].userRefId = u /\ UserUpdated(r)}

\* C12: the user update of a callback is one step on users/{userRefId} that
\* adds exactly 1 to completedInstalls, sets taskCompleted and leaves every
\* other field and every other record as it was; completedInstalls of a user
\* is at every moment the number of callbacks whose update committed (no lost
\* update among concurrent callbacks), every callback that wrote the
\* InstallRecord, found the user and met no store fault has updated it, and
\* with distinct installIds and no fault N InstallRecords of a user mean
\* completedInstalls = N.
C12_CompletedInstalls ==
  /\ [][\A r \in Slots :
          (req[r].pc = "txUser" /\ req'[r].pc # "txUser") =>
             LET u == req[r].userRefId
             IN /\ u \in DOMAIN users /\ u \in DOMAIN users'
                /\ req[r].installId \in DOMAIN installs
                /\ users'[u].completedInstalls = OrZero(users[u], "completedInstalls") + 1
                /\ users'[u].taskCompleted = TRUE
                /\ \A f \in (DOMAIN users[u]) \ {"completedInstalls", "taskCompleted"} :
                      f \in DOMAIN users'[u] /\ users'[u][f] = users[u][f]
                /\ \A v \in (DOMAIN users) \ {u} : v \in DOMAIN users' /\ users'[v] = users[v]
                /\ DOMAIN users' = DOMAIN users
       ]_vars
  /\ [](\A u \in DOMAIN users :
          /\ OrZero(users[u], "completedInstalls") = Cardinality(Updates(u))
          /\ Updates(u) # {} => (Has(users[u], "taskCompleted") /\ users[u].taskCompleted))
  /\ [](\A r \in Slots :
          ( /\ Done(r) /\ Ledgered(r) /\ ~Faulted(r)
            /\ req[r].resp # Resp(200, TRUE, "user-not-found") ) => UserUpdated(r))
  /\ []((/\ Quiescent /\ NoFaults
         /\ \A r1, r2 \in Slots :
              (r1 # r2 /\ Accepted(r1) /\ Accepted(r2)) => req[r1].installId # req[r2].installId)
        => \A u \in DOMAIN users :
              OrZero(users[u], "completedInstalls") =
                 Cardinality({i \in DOMAIN installs :
                                /\ installs[i].userRefId = u
                                /\ \E r \in Slots : req[r].installId = i /\ UserUpdated(r)}))

C12_Witness ==
  \E r1, r2 \in Slots :
     /\ r1 # r2 /\ req[r1].installId # req[r2].installId
     /\ InFlight(r1) /\ InFlight(r2)
     /\ req[r1].userRefId = "B" /\ req[r2].userRefId = "B"
     /\ req[r1].pc = "readRef" /\ req[r2].pc = "readRef"
     /\ users["B"].completedInstalls = 2 /\ users["B"].taskCompleted
     /\ DOMAIN installs = InstallIds2

Completed(u) == IF u \in DOMAIN users THEN OrZero(users[u], "completedInstalls") ELSE 0
\* request r takes the step from place p to place q
Moves(r, p, q) == req[r].pc = p /\ req'[r].pc = q

\* C13: every step that changes the store is one write of one callback, in
\* the order of the handler: the InstallRecord is written while the callback
\* has updated nothing else; completedInstalls of a user grows only by the
\* update of a callback whose InstallRecord exists; users/{a}.points grows
\* only by the credit of a callback whose InstallRecord exists and whose user
\* update has been counted; leaderboard/{a}.points grows only by the
\* leaderboard update of a callback whose credit is already in
\* users/{a}.points.
C13_WriteOrder ==
  [][/\ installs' # installs =>
          \E r \in Slots : /\ Moves(r, "setInst", "loadUser")
                           /\ UNCHANGED <<users, leaderboard>>
     /\ \A u \in Ids :
          Completed(u)' > Completed(u) =>
             \E r \in Slots : /\ Moves(r, "txUser", IF ShouldCredit(req[r]) THEN "readRef" ELSE "end")
                              /\ req[r].userRefId = u
                              /\ req[r].installId \in DOMAIN installs
                              /\ UNCHANGED <<installs, leaderboard>>
     /\ \A a \in Ids :
          UserPoints(a)' > UserPoints(a) =>
             \E r \in Slots : /\ Moves(r, "txRef", "bumpLb")
                              /\ req[r].referrerId = a
                              /\ req[r].installId \in DOMAIN installs
                              /\ Completed(req[r].userRefId) >= 1
                              /\ Completed(req[r].userRefId)
                                   = Cardinality(Updates(req[r].userRefId))
                              /\ r \in Updates(req[r].userRefId)
                              /\ LbPoints(a) <= UserPoints(a)
                              /\ UNCHANGED <<installs, leaderboard>>
     /\ \A a \in Ids :
          LbPoints(a)' > LbPoints(a) =>
             \E r \in Slots : /\ Moves(r, "bumpLb", "end")
                              /\ req[r].referrerId = a
                              /\ req[r].installId \in DOMAIN installs
                              /\ LbPoints(a)' <= UserPoints(a)
                              /\ UNCHANGED <<installs, users>>
    ]_vars

C13_Witness ==
  \E r1, r2 \in Slots :
     /\ req[r1].pc = "end" /\ CreditedLb(r1) /\ req[r1].referrerId = "A"
     /\ req[r2].pc = "bumpLb" /\ InFlight(r2) /\ req[r2].referrerId = "A"
     /\ req[r1].installId # req[r2].installId
     /\ UserPoints("A") = 2 * POINTS_FOR_COMPLETION
     /\ LbPoints("A") = POINTS_FOR_COMPLETION
     /\ Completed("B") = 2

\* C14: an InstallRecord that exists is there after every step, with the same
\* installId, userRefId and providerStatus.
C14_InstallRecordImmutable ==
  [][\A i \in DOMAIN installs :
       /\ i \in DOMAIN installs'
       /\ installs'[i].installId = installs[i].installId
       /\ installs'[i].userRefId = installs[i].userRefId
       /\ installs'[i].providerStatus = installs[i].providerStatus
    ]_vars

TaskCompleted(rec) == Has(rec, "taskCompleted") /\ rec.taskCompleted

\* C15: in every state points and completedInstalls of every user record
\* (a field not stored reads as 0) are natural numbers, and in every step
\* every user record stays, its points and its completedInstalls do not
\* decrease and its taskCompleted does not go from true to false; so a /start
\* of a user who has points keeps them.
C15_CountersMonotone ==
  /\ [](\A u \in DOMAIN users :
          /\ OrZero(users[u], "points") \in Nat
          /\ OrZero(users[u], "completedInstalls") \in Nat
          /\ Has(users[u], "taskCompleted") => users[u].taskCompleted \in BOOLEAN)
  /\ [][\A u \in DOMAIN users :
          /\ u \in DOMAIN users'
          /\ OrZero(users'[u], "points") >= OrZero(users[u], "points")
          /\ OrZero(users'[u], "completedInstalls") >= OrZero(users[u], "completedInstalls")
          /\ TaskCompleted(users[u]) => TaskCompleted(users'[u])
       ]_vars

\* A was credited before its first contact and has sent /start since; B has
\* completed an install and has sent /start with a name since or before
C15_Witness ==
  /\ "A" \in DOMAIN users /\ "B" \in DOMAIN users
  /\ ~Has(users["A"], "id") /\ Str(users["A"], "username") = "ann"
  /\ UserPoints("A") = POINTS_FOR_COMPLETION
  /\ Completed("B") = 1 /\ TaskCompleted(users["B"])

UserName(u) == IF u \in DOMAIN users THEN Str(users[u], "username") ELSE Null
LbName(a) == IF a \in DOMAIN leaderboard THEN Str(leaderboard[a], "username") ELSE Null

\* records as upsertUser and bumpLeaderboard may find them
NameOpts == UserNames2 \cup {Null}
UserRecs ==
  {StoreValue([id |-> "A", username |-> n, referrer |-> f,
               points |-> 0, completedInstalls |-> 0, taskCompleted |-> FALSE],
              {"username", "referrer"}) : n \in NameOpts, f \in {"B", Null}}
  \cup {[points |-> POINTS_FOR_COMPLETION]}
LbRecs == {StoreValue([points |-> 1, username |-> n], {"username"}) : n \in NameOpts}

\* C16: in every step a display name that is set, in a user record or in a
\* leaderboard entry, stays as it is; upsertUser and bumpLeaderboard keep a
\* name that is set whatever name they are given, and put the name they are
\* given where none is set (also when they create the record); a leaderboard
\* entry's name is the name of its user.
C16_NameSetOnce ==
  /\ [][/\ \A u \in Ids : UserName(u) # Null => UserName(u)' = UserName(u)
        /\ \A a \in Ids : LbName(a) # Null => LbName(a)' = LbName(a)
       ]_vars
  /\ [](\A a \in Ids : LbName(a) # Null => LbName(a) = UserName(a))
  /\ [](\A n \in NameOpts, f \in {"B", Null} :
          /\ Str(upsertUser(<<>>, FALSE, "A", n, f), "username") = n
          /\ \A cur \in UserRecs :
               Str(upsertUser(cur, TRUE, "A", n, f), "username") =
                  IF Str(cur, "username") # Null THEN Str(cur, "username") ELSE n)
  /\ [](\A n \in NameOpts :
          /\ Str(bumpLeaderboard(<<>>, FALSE, 1, n), "username") = n
          /\ \A cur \in LbRecs :
               Str(bumpLeaderboard(cur, TRUE, 1, n), "username") =
                  IF Str(cur, "username") # Null THEN Str(cur, "username") ELSE n)

\* the first credit of A carried no name, the second carried the name A had
\* given in between
C16_Witness ==
  \E r1, r2 \in Slots :
     /\ r1 # r2 /\ CreditedLb(r1) /\ CreditedLb(r2)
     /\ req[r1].referrerId = "A" /\ req[r2].referrerId = "A"
     /\ req[r1].refUsername = Null /\ req[r2].refUsername = "ann"
     /\ LbName("A") = "ann" /\ UserName("A") = "ann" /\ UserName("B") = "bob"
     /\ LbPoints("A") = 2 * POINTS_FOR_COMPLETION

\* the leaderboard entries a request read, with their points
SeenPoints(t, k) == OrZero(top[t].seen[k], "points")
Answered(t) == top[t].pc = "done"

\* C17: every request that has been received has an n between 1 and 100 and
\* a query the store accepts; an answer holds at most n entries, all there are
\* when there are no more than n, each an entry of the leaderboard as read
\* with its points, none twice, no entry left out having more points than one
\* returned, in descending order of points and, among equal points, in the
\* order of the userIds; two requests with the same parameter that read the
\* same leaderboard are answered with the same array.
C17_TopN ==
  /\ \A t \in TopSlots :
       top[t].pc # "idle" =>
          /\ ~top[t].n.nan /\ top[t].n.val \in 1..100
          /\ top[t].pc # "threw"
          /\ Answered(t) =>
               LET arr == top[t].arr
                   seen == top[t].seen
                   n == top[t].n.val
                   ids == {arr[k].userId : k \in 1..Len(arr)}
               IN /\ Len(arr) <= n
                  /\ Len(arr) = IF Cardinality(DOMAIN seen) < n
                                THEN Cardinality(DOMAIN seen) ELSE n
                  /\ Cardinality(ids) = Len(arr)
                  /\ \A k \in 1..Len(arr) :
                       /\ arr[k].userId \in DOMAIN seen
                       /\ arr[k].points = SeenPoints(t, arr[k].userId)
                  /\ \A x \in (DOMAIN seen) \ ids, k \in 1..Len(arr) :
                       SeenPoints(t, x) <= arr[k].points
                  /\ \A j, k \in 1..Len(arr) :
                       j < k => \/ arr[j].points > arr[k].points
                                \/ /\ arr[j].points = arr[k].points
                                   /\ IdRank[arr[j].userId] < IdRank[arr[k].userId]
  /\ \A t1, t2 \in TopSlots :
       ( /\ Answered(t1) /\ Answered(t2)
         /\ top[t1].param = top[t2].param /\ top[t1].seen = top[t2].seen )
       => top[t1].arr = top[t2].arr

\* the same, for the requests whose parameter is a number
C17_TopNNumeric ==
  (\A t \in TopSlots : top[t].pc # "idle" => ~ParseInt(top[t].param).nan) => C17_TopN

\* C18: a callback stopped by a store fault is answered once, with status 500
\* and ok = false, and two callbacks with the same payload stopped at the same
\* store operation are answered with the same body, whatever the messages of
\* their faults.
C18_GenericFaultResponse ==
  /\ \A r \in Slots :
       Faulted(r) => /\ req[r].sent = 1
                     /\ req[r].resp.code = 500 /\ ~req[r].resp.ok
  /\ \A r1, r2 \in Slots :
       ( /\ Faulted(r1) /\ Faulted(r2)
         /\ req[r1].pc = req[r2].pc
         /\ req[r1].installId = req[r2].installId
         /\ req[r1].userRefId = req[r2].userRefId
         /\ req[r1].providerStatus = req[r2].providerStatus )
       => req[r1].resp.body = req[r2].resp.body

Failures(run) == {k \in 1..Len(run.sent) : ~run.sent[k].ok}

\* C19: no run of a chat handler ends with its promise rejected; every send
\* that failed was logged; no run sends again to a chat a send to which
\* failed, the commands other than /broadcast send once; a /broadcast of the
\* admin that has ended has sent to every user it read, in their order,
\* whichever of these sends failed.
C19_SendFailureIsolated ==
  \A h \in ChatSlots :
     LET run == chat[h]
     IN /\ run.pc # "unhandled"
        /\ run.logged = Cardinality(Failures(run))
        /\ \A j, k \in 1..Len(run.sent) :
             (j < k /\ ~run.sent[j].ok) => run.sent[k].to # run.sent[j].to
        /\ run.cmd # "broadcast" => Len(run.sent) <= 1
        /\ (run.cmd = "broadcast" /\ run.pc \in {"send", "done", "unhandled"}
              /\ run.chatId = AdminChatId) =>
             /\ Len(run.sent) >= Len(run.targets)
             /\ \A k \in 1..Len(run.targets) : run.sent[k].to = run.targets[k]

\* the same, leaving aside the rejected promise and what follows from it
C19_LoopIsolated ==
  \A h \in ChatSlots :
     LET run == chat[h]
     IN /\ run.logged = Cardinality({k \in Failures(run) : k <= Len(run.targets)
                                                          \/ run.cmd = "start"})
        /\ run.cmd # "broadcast" => Len(run.sent) <= 1
        /\ (run.cmd = "broadcast" /\ run.pc \in {"send", "done", "unhandled"}
              /\ run.chatId = AdminChatId) =>
             /\ Len(run.sent) >= Len(run.targets)
             /\ \A k \in 1..Len(run.targets) : run.sent[k].to = run.targets[k]

\* key k of collection coll is the same before and after the step
SameKey(coll, k) ==
  /\ (k \in DOMAIN coll) = (k \in DOMAIN coll')
  /\ k \in DOMAIN coll => coll'[k] = coll[k]

\* record rec keeps every field outside fs and gains no field outside fs
SameBut(rec, rec2, fs) ==
  /\ \A f \in (DOMAIN rec) \ fs : f \in DOMAIN rec2 /\ rec2[f] = rec[f]
  /\ \A f \in (DOMAIN rec2) \ fs : f \in DOMAIN rec

PointsIn(coll, a) == IF a \in DOMAIN coll THEN OrZero(coll[a], "points") ELSE 0
ReferrerIn(coll, u) == IF u \in DOMAIN coll THEN Str(coll[u], "referrer") ELSE Null

\* C20: a step of a callback for an install of user b, whose handler has read
\* the referrer R, changes in installs the install's record only, in users
\* only completedInstalls and taskCompleted of b and points of R, in the
\* leaderboard only the entry of R; R is then the referrer of b and is not b;
\* the points of b, every field of R but points (its referrer too), the
\* referrer of R and every other user and leaderboard entry are as before.
C20_CallbackFrame ==
  [][\A r \in Slots :
       req'[r] # req[r] =>
          LET b == req'[r].userRefId
              R == req'[r].referrerId
              touched == {k \in ChainIds : ~SameKey(users, k)}
          IN /\ \A i \in (DOMAIN installs) \cup (DOMAIN installs') :
                  i # req'[r].installId => SameKey(installs, i)
             /\ touched \subseteq {b, R}
             /\ \A a \in ChainIds : a # R => SameKey(leaderboard, a)
             /\ b \in touched =>
                  /\ b \in DOMAIN users /\ b \in DOMAIN users'
                  /\ SameBut(users[b], users'[b], {"completedInstalls", "taskCompleted"})
             /\ PointsIn(users', b) = PointsIn(users, b)
             /\ (R \in touched \/ ~SameKey(leaderboard, R)) =>
                  /\ R # Null /\ R # b /\ R = ReferrerIn(users, b)
                  /\ R \in DOMAIN users =>
                       /\ SameBut(users[R], users'[R], {"points"})
                       /\ ReferrerIn(users', R) = ReferrerIn(users, R)
                       /\ ReferrerIn(users, R) # R =>
                            /\ PointsIn(users', ReferrerIn(users, R)) = PointsIn(users, ReferrerIn(users, R))
                            /\ PointsIn(leaderboard', ReferrerIn(users, R)) = PointsIn(leaderboard, ReferrerIn(users, R))
                  /\ R \notin DOMAIN users => DOMAIN users'[R] = {"points"}
    ]_vars

\* D -> B -> A -> C: the install of B has credited A, and nobody else
C20_Witness ==
  /\ Referrer("D") = "B" /\ Referrer("B") = "A" /\ Referrer("A") = "C"
  /\ \E r \in Slots : req[r].userRefId = "B" /\ CreditedLb(r) /\ req[r].referrerId = "A"
  /\ Completed("B") = 1
  /\ UserPoints("A") = POINTS_FOR_COMPLETION /\ LbPoints("A") = POINTS_FOR_COMPLETION
  /\ \A x \in ChainIds \ {"A"} : UserPoints(x) = 0 /\ x \notin DOMAIN leaderboard
  /\ "C" \notin DOMAIN users

\* C21: when the completedInstalls increment of a callback commits and the
\* user then has a referrer other than itself, the callback goes on to credit
\* that referrer; when the user then has none, it credits nobody.
C21_ReferrerAtIncrement ==
  [][\A r \in Slots :
       (req[r].pc = "txUser" /\ req'[r].pc # "txUser") =>
          LET b == req[r].userRefId
              R == ReferrerIn(users, b)
          IN IF R \notin {Null, b}
             THEN req'[r].pc = "readRef" /\ req'[r].referrerId = R
             ELSE req'[r].pc = "end"
    ]_vars

\* a user record a credit created: it has no id
Placeholder(rec) == ~Has(rec, "id")

\* C22: a /start with a code stores the code as referrer whether or not the
\* code has a user record; the credit of a referrer that has no record
\* creates users/{R} with points equal to the award and nothing else, and the
\* leaderboard update of a referrer that has no entry creates leaderboard/{R}
\* with points equal to the award; a /start of a chat whose record a credit
\* created keeps its points and the leaderboard and changes only referrer and
\* name, and upsertUser gives such a record the referrer and the name of
\* that /start.
C22_PlaceholderReferrer ==
  /\ [][\A r \in Slots :
          /\ (Moves(r, "txRef", "bumpLb") /\ req[r].referrerId \notin DOMAIN users) =>
                /\ req[r].referrerId \in DOMAIN users'
                /\ users'[req[r].referrerId] = [points |-> POINTS_FOR_COMPLETION]
          /\ (Moves(r, "bumpLb", "end") /\ req[r].referrerId \notin DOMAIN leaderboard) =>
                /\ req[r].referrerId \in DOMAIN leaderboard'
                /\ PointsIn(leaderboard', req[r].referrerId) = POINTS_FOR_COMPLETION
       ]_vars
  /\ [][(req' = req /\ users' # users) =>
          \A u \in DOMAIN users :
             /\ u \in DOMAIN users'
             /\ Placeholder(users[u]) =>
                  /\ PointsIn(users', u) = PointsIn(users, u)
                  /\ SameBut(users[u], users'[u], {"referrer", "username"})
                  /\ leaderboard' = leaderboard
       ]_vars
  /\ [](\A u \in DOMAIN users :
          Placeholder(users[u]) => OrZero(users[u], "points") >= POINTS_FOR_COMPLETION)
  /\ [](\A n \in UserNames \cup {Null}, f \in RefCodes \cup {Null}, p \in 1..2 :
          LET rec == upsertUser([points |-> p], TRUE, "A", n, f)
          IN /\ rec.points = p
             /\ Str(rec, "referrer") = f
             /\ Str(rec, "username") = n)

\* B registered with the code A before A had a record; B's install created
\* users/A and leaderboard/A; A's /start since gave A a referrer and a name
C22_Witness ==
  /\ "A" \in DOMAIN users /\ Placeholder(users["A"])
  /\ Referrer("B") = "A" /\ Completed("B") = 1
  /\ UserPoints("A") = POINTS_FOR_COMPLETION /\ LbPoints("A") = POINTS_FOR_COMPLETION
  /\ Referrer("A") = "C" /\ UserName("A") = "ann"
  /\ "C" \notin DOMAIN users

\* the status a callback is taken to carry, as the claim reads it
ClaimStatus(st) ==
  CASE st \in {Null, ""} -> "completed"
    [] st \in {"COMPLETED", "completed"} -> "completed"
    [] st = "Paid" -> "paid"
    [] OTHER -> st

\* C23: on a server with a secret, a signed callback with both ids whose
\* providerStatus is absent, empty, or a success status in any case is not
\* ignored: it goes on to the ledger, the InstallRecord it writes carries the
\* lowercase status ('completed' when there was none), and from there it
\* takes the steps of every success callback, so the points of a referrer are
\* the awards of the callbacks that credited it, whatever their status was
\* spelled like.
C23_StatusDefault ==
  /\ [](\A r \in Slots :
          ( /\ req[r].pc # "idle" /\ secret # "" /\ req[r].sig = "good"
            /\ req[r].installId # Null /\ req[r].userRefId # Null
            /\ ClaimStatus(req[r].providerStatus) \in ClaimSuccess )
          => /\ req[r].pc # "validate"
             /\ req[r].resp # Resp(200, TRUE, "ignored")
             /\ req[r].status = ClaimStatus(req[r].providerStatus))
  /\ [][\A r \in Slots :
          Moves(r, "setInst", "loadUser") =>
             /\ req[r].installId \in DOMAIN installs'
             /\ installs'[req[r].installId].providerStatus
                  = ClaimStatus(req[r].providerStatus)
             /\ installs'[req[r].installId].providerStatus \in ClaimSuccess
       ]_vars
  /\ [](\A a \in Ids : UserPoints(a) = AwardsTo(a))
  /\ [](\A r \in Slots :
          (req[r].pc = "end" /\ ~ShouldCredit(req[r])) => req[r].referrerId \in {Null, req[r].userRefId})

\* a callback without providerStatus has credited A for B's install
C23_Witness ==
  \E r \in Slots :
     /\ req[r].providerStatus = Null /\ CreditedLb(r) /\ req[r].referrerId = "A"
     /\ req[r].resp = Resp(200, TRUE, "ok")
     /\ installs[req[r].installId].providerStatus = "completed"
     /\ UserPoints("A") = POINTS_FOR_COMPLETION /\ LbPoints("A") = POINTS_FOR_COMPLETION
     /\ Completed("B") = 1
     /\ \E q \in Slots : /\ q # r /\ req[q].providerStatus \in {"", "COMPLETED", "Paid"}
                         /\ req[q].resp = Resp(200, TRUE, "alreadyProcessed")

====
